---- MODULE Spec2Model ----
(***************************************************************************)
(* A model of two units of the Lumix engine:                               *)
(*   - GameView (src/src/renderer/editor/game_view.cpp), the editor panel   *)
(*     that owns a render pipeline, forwards pause / next-frame / time      *)
(*     multiplier to the engine and captures the mouse;                     *)
(*   - RendererImpl (src/src/renderer/renderer.cpp), the renderer plugin.   *)
(* Every method is one action.  The calls a method makes to the engine,     *)
(* SDL, the pipeline and bgfx are recorded, in order, in `calls`.           *)
(***************************************************************************)
EXTENDS Integers, Sequences, FiniteSets, TLC

VARIABLES
    gv,      \* the GameView object's fields
    env,     \* what the panel acts on: engine, input system, SDL, editor, pipeline
    calls,   \* the external calls made by the most recent operation, in order
    last,    \* the most recent operation and the inputs it ran with
    fault,   \* TRUE once a universe callback dereferenced a null or destroyed pipeline
    rn,      \* the RendererImpl object, the bgfx backend and the process it runs in
    rcalls,  \* the external calls made by the renderer's most recent operation
    rhist,   \* the renderer's operations so far, each with what it returned
    sd       \* m_shader_defines and the most recent call on it

vars == <<gv, env, calls, last, fault, rn, rcalls, rhist, sd>>

\* ------------------------------------------------------------------ bounds

\* Operations one renderer serves between its construction and its destruction.
MaxOps == 5

\* Entries m_shader_defines grows to.
MaxDefines == 3

\* ------------------------------------------------------------- value sets

\* 0 is nullptr, 1 the renderer scene of the editor's universe.
Scenes == {0, 1}

\* What fb->getRenderbufferHandle(0) returns; 0 stands for the m_texture_handle the
\* constructor leaves unassigned.
FbHandles == {1}

\* Values the "Time multiplier" slider is dragged between; the constructor sets 1.
TimeValues == {1, 2}

\* ImGui::BeginDock: the dock is drawn, is not drawn, or was closed by the user
\* (which clears *opened).
DockOutcomes == {"visible", "hidden", "closed"}

B2I(b) == IF b THEN 1 ELSE 0

Call(fn, arg) == [fn |-> fn, arg |-> arg]

\* ------------------------------------------------------------ construction

GameViewCtor ==
    [ m_editor                   |-> FALSE,   \* nullptr
      m_pipeline                 |-> FALSE,   \* nullptr
      m_is_opengl                |-> FALSE,
      m_is_opened                |-> TRUE,
      m_is_mouse_captured        |-> FALSE,
      m_is_mouse_hovering_window |-> FALSE,
      m_time_multiplier          |-> 1,
      m_paused                   |-> FALSE,
      m_texture_handle           |-> 0 ]

EnvInit ==
    [ engine_paused   |-> FALSE,
      input_enabled   |-> FALSE,
      cursor_shown    |-> TRUE,
      relative_mouse  |-> FALSE,
      pipeline        |-> "none",     \* the Pipeline object: none, alive, destroyed
      pipeline_scene  |-> 0,
      n_created       |-> 0,          \* Pipeline::create calls
      n_loaded        |-> 0,          \* Pipeline::load calls
      n_destroyed     |-> 0,          \* Pipeline::destroy calls
      cb_created      |-> FALSE,      \* onUniverseCreated bound to universeCreated()
      cb_destroyed    |-> FALSE,      \* onUniverseDestroyed bound to universeDestroyed()
      universe        |-> 0,          \* 1 when the editor has a universe, else 0
      key_escape      |-> FALSE,      \* io.KeysDown[ImGui::GetKeyIndex(ImGuiKey_Escape)]
      game_mode       |-> FALSE,      \* WorldEditor::isGameMode()
      input_focus     |-> TRUE ]      \* SDL_WINDOW_INPUT_FOCUS of the editor window

\* What one onGui call's queries return: Pipeline::isReady, io.KeysDown[Escape],
\* WorldEditor::isGameMode, SDL_WINDOW_INPUT_FOCUS (these three are the key, editor
\* and window state at the time of the call), BeginDock, IsMouseHoveringWindow,
\* IsMouseHoveringRect, IsMouseClicked(0), size.x > 0 && size.y > 0,
\* getRenderbufferHandle, Checkbox, Button, DragFloat (0: not dragged).
NoInput ==
    [ ready |-> FALSE, escape |-> FALSE, game_mode |-> FALSE, focus |-> FALSE,
      dock |-> "hidden", hover_window |-> FALSE, hover_rect |-> FALSE,
      clicked |-> FALSE, size_positive |-> FALSE, fb_handle |-> 0,
      pause_clicked |-> FALSE, next_clicked |-> FALSE, drag_to |-> 0 ]

\* The record kept of the most recent operation: its name and, for onGui, the
\* inputs the claims speak of and whether the mouse was captured at entry.
Op(name) ==
    [ op |-> name, ready |-> FALSE, escape |-> FALSE, game_mode |-> FALSE,
      focus |-> FALSE, click_in_view |-> FALSE, was_captured |-> FALSE,
      was_paused |-> FALSE ]

OnGuiOp(g, in) ==
    [ op |-> "onGui", ready |-> in.ready, escape |-> in.escape,
      game_mode |-> in.game_mode, focus |-> in.focus,
      click_in_view |-> (in.dock = "visible" /\ in.hover_window /\ in.hover_rect
                         /\ in.clicked),
      was_captured |-> g.m_is_mouse_captured,
      was_paused |-> g.m_paused ]

\* A state threaded through the statements of one method.
St(g, e, c, f) == [gv |-> g, env |-> e, calls |-> c, fault |-> f]

\* The editor's renderer scene: m_editor->getScene(crc32("renderer")).
EditorScene(e) == e.universe

\* m_pipeline-> ... : dereferencing a null or destroyed pipeline is a fault.
Deref(s) ==
    IF s.gv.m_pipeline /\ s.env.pipeline = "alive" THEN s
    ELSE [s EXCEPT !.fault = TRUE]

PipelineSetScene(s, scene) ==
    LET d == Deref(s) IN
    [d EXCEPT !.env.pipeline_scene = IF d.fault THEN @ ELSE scene,
              !.calls = Append(@, Call("Pipeline::setScene", scene))]

OnUniverseCreated(s) == PipelineSetScene(s, EditorScene(s.env))

OnUniverseDestroyed(s) == PipelineSetScene(s, 0)

Commit(s, l) ==
    /\ gv' = s.gv
    /\ env' = s.env
    /\ calls' = s.calls
    /\ fault' = s.fault
    /\ last' = l
    /\ UNCHANGED <<rn, rcalls, rhist, sd>>

Fresh == St(gv, env, <<>>, fault)

\* ----------------------------------------------------------------- init

InitBody(s, opengl) ==
    LET s1 == [s EXCEPT !.gv.m_editor = TRUE,
                        !.gv.m_is_opengl = opengl,
                        !.gv.m_pipeline = TRUE,
                        !.env.pipeline = "alive",
                        !.env.n_created = @ + 1,
                        !.env.n_loaded = @ + 1,
                        !.calls = @ \o <<Call("Pipeline::create", 0),
                                         Call("Pipeline::load", 0)>>]
        s2 == [s1 EXCEPT !.env.cb_created = TRUE,
                         !.env.cb_destroyed = TRUE,
                         !.calls = @ \o <<Call("universeCreated.bind", 0),
                                          Call("universeDestroyed.bind", 0)>>]
    IN  OnUniverseCreated(s2)

GameViewInit ==
    /\ ~gv.m_editor
    /\ \E opengl \in BOOLEAN : Commit(InitBody(Fresh, opengl), Op("init"))

\* ------------------------------------------------------------- shutdown

PipelineDestroy(s) ==
    [s EXCEPT !.env.pipeline = IF s.gv.m_pipeline THEN "destroyed" ELSE @,
              !.env.n_destroyed = @ + 1,
              !.calls = Append(@, Call("Pipeline::destroy", 0))]

Unbind_OnlyCreated(s) ==
    [s EXCEPT !.env.cb_created = FALSE,
              !.calls = @ \o <<Call("universeCreated.unbind", 0)>>]

Unbind(s) ==
    [s EXCEPT !.env.cb_created = FALSE,
              !.env.cb_destroyed = FALSE,
              !.calls = @ \o <<Call("universeCreated.unbind", 0),
                               Call("universeDestroyed.unbind", 0)>>]

ShutdownBody(s) ==
    LET s1 == Unbind(s)
        s2 == PipelineDestroy(s1)
    IN  [s2 EXCEPT !.gv.m_pipeline = FALSE]

\* The host calls shutdown once, on a panel it has initialised.
GameViewShutdown ==
    /\ gv.m_editor
    /\ gv.m_pipeline
    /\ Commit(ShutdownBody(Fresh), Op("shutdown"))

\* ------------------------------------------------------------- setScene

GameViewSetScene ==
    /\ gv.m_pipeline
    /\ \E scene \in Scenes : Commit(PipelineSetScene(Fresh, scene), Op("setScene"))

\* ------------------------------------------------ the editor's universe events

\* WorldEditor invokes the universeCreated() delegate: every bound callback runs.
InvokeUniverseCreated(s) == IF s.env.cb_created THEN OnUniverseCreated(s) ELSE s

InvokeUniverseDestroyed(s) == IF s.env.cb_destroyed THEN OnUniverseDestroyed(s) ELSE s

EditorUniverseCreated ==
    /\ env.universe = 0
    /\ LET s1 == [Fresh EXCEPT !.env.universe = 1]
       IN  Commit(InvokeUniverseCreated(s1), Op("universeCreated"))

EditorUniverseDestroyed ==
    /\ env.universe # 0
    /\ LET s1 == InvokeUniverseDestroyed(Fresh)
       IN  Commit([s1 EXCEPT !.env.universe = 0], Op("universeDestroyed"))

\* ---------------------------------------------------------------- onGui

CaptureMouse(s, capture) ==
    [s EXCEPT !.gv.m_is_mouse_captured = capture,
              !.env.input_enabled = capture,
              !.env.cursor_shown = ~capture,
              !.env.relative_mouse = capture,
              !.calls = @ \o <<Call("InputSystem::enable", B2I(capture)),
                               Call("SDL_ShowCursor", B2I(~capture)),
                               Call("SDL_SetRelativeMouseMode", B2I(capture))>>]

\* Lines 97-102: release on Escape, on leaving game mode, on losing focus.
ReleaseOnEntry_NoGameModeCheck(s, in) ==
    IF s.gv.m_is_mouse_captured /\ (in.escape \/ ~in.focus)
    THEN CaptureMouse(s, FALSE)
    ELSE s

ReleaseOnEntry(s, in) ==
    IF s.gv.m_is_mouse_captured /\ (in.escape \/ ~in.game_mode \/ ~in.focus)
    THEN CaptureMouse(s, FALSE)
    ELSE s

\* Lines 104-106: the window name tells whether the mouse is captured; BeginDock
\* clears *opened when the user closes the dock.
BeginDock(s, in) ==
    [s EXCEPT !.gv.m_is_opened = IF in.dock = "closed" THEN FALSE ELSE @,
              !.calls = Append(@, Call("ImGui::BeginDock", B2I(s.gv.m_is_mouse_captured)))]

\* Lines 130-133.
PauseCheckbox_NotForwarded(s, in) ==
    IF in.pause_clicked
    THEN [s EXCEPT !.gv.m_paused = ~s.gv.m_paused]
    ELSE s

PauseCheckbox(s, in) ==
    IF in.pause_clicked
    THEN LET p == ~s.gv.m_paused IN
         [s EXCEPT !.gv.m_paused = p,
                   !.env.engine_paused = p,
                   !.calls = Append(@, Call("Engine::pause", B2I(p)))]
    ELSE s

\* Lines 134-141.  The call record notes whether the engine was paused when
\* nextFrame() reached it.
NextFrameButton_Unguarded(s, in) ==
    IF in.next_clicked
    THEN [s EXCEPT !.calls = Append(@, Call("Engine::nextFrame", B2I(s.env.engine_paused)))]
    ELSE s

NextFrameButton(s, in) ==
    IF s.gv.m_paused /\ in.next_clicked
    THEN [s EXCEPT !.calls = Append(@, Call("Engine::nextFrame", B2I(s.env.engine_paused)))]
    ELSE s

\* Lines 142-146.
TimeMultiplierDrag(s, in) ==
    IF in.drag_to # 0
    THEN [s EXCEPT !.gv.m_time_multiplier = in.drag_to,
                   !.calls = Append(@, Call("Engine::setTimeMultiplier", in.drag_to))]
    ELSE s

\* Lines 114-148.
DockContent(s, in) ==
    IF in.size_positive
    THEN LET s1 == [s EXCEPT !.gv.m_texture_handle = in.fb_handle,
                             !.calls = @ \o <<Call("Pipeline::setViewport", 0),
                                              Call("Pipeline::getFramebuffer", 0),
                                              Call("ImGui::Image", B2I(s.gv.m_is_opengl))>>]
             s2 == PauseCheckbox(s1, in)
             s3 == NextFrameButton(s2, in)
             s4 == TimeMultiplierDrag(s3, in)
         IN  [s4 EXCEPT !.calls = Append(@, Call("Pipeline::render", 0))]
    ELSE s

\* Lines 150-156.
ReleaseInDock(s, in) ==
    IF s.gv.m_is_mouse_captured /\ (in.escape \/ ~in.game_mode)
    THEN CaptureMouse(s, FALSE)
    ELSE s

\* Lines 158-162.
CaptureOnClick_NoHoverCheck(s, in) ==
    IF in.hover_rect /\ in.clicked /\ in.game_mode
    THEN CaptureMouse(s, TRUE)
    ELSE s

CaptureOnClick(s, in) ==
    IF in.hover_rect /\ s.gv.m_is_mouse_hovering_window /\ in.clicked /\ in.game_mode
    THEN CaptureMouse(s, TRUE)
    ELSE s

\* Lines 106-164.
Dock(s, in) ==
    LET s1 == BeginDock(s, in)
        s2 == IF in.dock = "visible"
              THEN LET a == [s1 EXCEPT !.gv.m_is_mouse_hovering_window = in.hover_window]
                       b == DockContent(a, in)
                       c == ReleaseInDock(b, in)
                   IN  CaptureOnClick(c, in)
              ELSE s1
    IN  [s2 EXCEPT !.calls = Append(@, Call("ImGui::EndDock", 0))]

\* Line 93 left out: the frame runs whether or not the pipeline is ready.
OnGuiBody_NoReadyCheck(s, in) == Dock(ReleaseOnEntry(s, in), in)

OnGuiBody(s, in) ==
    IF ~in.ready THEN s
    ELSE Dock(ReleaseOnEntry(s, in), in)

OnGuiRun(in) ==
    Commit(OnGuiBody(Fresh, in), OnGuiOp(gv, in))

\* The host calls onGui every frame of an initialised panel.  The inputs are what
\* the frame's queries would return; the body decides which of them it asks.
GameViewOnGui ==
    /\ gv.m_pipeline
    /\ \E ready \in BOOLEAN :
         LET i0 == [NoInput EXCEPT !.ready = ready,
                                   !.escape = env.key_escape,
                                   !.game_mode = env.game_mode,
                                   !.focus = env.input_focus]
         IN
         IF ~ready THEN OnGuiRun(i0)
         ELSE \E dock \in DockOutcomes :
           LET i1 == [i0 EXCEPT !.dock = dock] IN
           IF dock # "visible" THEN OnGuiRun(i1)
           ELSE \E hover_window, hover_rect, clicked, size_positive \in BOOLEAN :
             LET i2 == [i1 EXCEPT !.hover_window = hover_window,
                                  !.hover_rect = hover_rect,
                                  !.clicked = clicked,
                                  !.size_positive = size_positive]
             IN
             IF ~size_positive THEN OnGuiRun(i2)
             ELSE \E fb_handle \in FbHandles, pause_clicked, next_clicked \in BOOLEAN,
                     drag_to \in {0} \cup (TimeValues \ {gv.m_time_multiplier}) :
               OnGuiRun([i2 EXCEPT !.fb_handle = fb_handle,
                                   !.pause_clicked = pause_clicked,
                                   !.drag_to = drag_to,
                                   !.next_clicked = next_clicked])

\* ------------------------------------ key, editor and window events between frames

\* The Escape key goes down or up.
EscapeKey ==
    Commit([Fresh EXCEPT !.env.key_escape = ~@], Op("escapeKey"))

\* The editor enters or leaves game mode.
EditorToggleGameMode ==
    Commit([Fresh EXCEPT !.env.game_mode = ~@], Op("toggleGameMode"))

\* The editor window gains or loses input focus.
WindowFocus ==
    Commit([Fresh EXCEPT !.env.input_focus = ~@], Op("windowFocus"))

\* ============================================================ RendererImpl

\* ResourceManager types, in the order the constructor registers their managers.
ManagerTypes == <<"TEXTURE", "MODEL", "MATERIAL", "SHADER", "SHADER_BINARY", "PIPELINE">>

ManagerSet == {ManagerTypes[i] : i \in DOMAIN ManagerTypes}

\* bgfx::Fatal::Enum.
FatalCodes == {"DebugCheck", "MinimumRequiredSpecs", "InvalidShader",
               "UnableToInitialize", "UnableToCreateTexture", "DeviceLost"}

\* Before createPlugin: no object, the backend not initialised.
RendererNone ==
    [ object         |-> "none",      \* none, alive, destroyed
      process        |-> "running",   \* running, aborted, stopped (a break that did not return)
      bgfx           |-> "off",       \* off, on, shut
      managers       |-> [t \in ManagerSet |-> "none"],   \* none, created, destroyed
      m_view_counter |-> 0 ]

RCall(fn, arg) == [fn |-> fn, arg |-> arg]

R(r, c) == [rn |-> r, calls |-> c]

Entry(op, ret, code) == [op |-> op, ret |-> ret, code |-> code]

ManagerCreate(r, t) ==
    [r EXCEPT !.rn.managers[t] = "created",
              !.calls = Append(@, RCall("create", t))]

ManagerDestroy(r, t) ==
    [r EXCEPT !.rn.managers[t] = "destroyed",
              !.calls = Append(@, RCall("destroy", t))]

RECURSIVE CreateManagers(_, _)
CreateManagers(r, i) ==
    IF i > Len(ManagerTypes) THEN r
    ELSE CreateManagers(ManagerCreate(r, ManagerTypes[i]), i + 1)

RECURSIVE DestroyManagers(_, _)
DestroyManagers(r, i) ==
    IF i > Len(ManagerTypes) THEN r
    ELSE DestroyManagers(ManagerDestroy(r, ManagerTypes[i]), i + 1)

BgfxInit(r, platform) ==
    [r EXCEPT !.rn.bgfx = "on",
              !.calls = @ \o (IF platform THEN <<RCall("bgfx::setPlatformData", "")>>
                                           ELSE <<>>)
                          \o <<RCall("bgfx::init", ""), RCall("bgfx::reset", ""),
                               RCall("bgfx::setDebug", "")>>]

BgfxShutdown(r) ==
    [r EXCEPT !.rn.bgfx = "shut",
              !.calls = Append(@, RCall("bgfx::shutdown", ""))]

BgfxFrame(r) == [r EXCEPT !.calls = Append(@, RCall("bgfx::frame", ""))]

\* RendererImpl::RendererImpl, lines 198-220.
RendererCtor_ManagersFirst(r, platform) ==
    LET r1 == CreateManagers(r, 1)
        r2 == BgfxInit(r1, platform)
    IN  [r2 EXCEPT !.rn.object = "alive",
                   !.rn.m_view_counter = 0,
                   !.calls = Append(@, RCall("registerPropertyDescriptors", ""))]

RendererCtor(r, platform) ==
    LET r1 == BgfxInit(r, platform)
        r2 == CreateManagers(r1, 1)
    IN  [r2 EXCEPT !.rn.object = "alive",
                   !.rn.m_view_counter = 0,
                   !.calls = Append(@, RCall("registerPropertyDescriptors", ""))]

\* RendererImpl::~RendererImpl.
RendererDtor(r) ==
    LET r1 == DestroyManagers(r, 1)
        r2 == BgfxFrame(BgfxFrame(r1))
        r3 == BgfxShutdown(r2)
    IN  [r3 EXCEPT !.rn.object = "destroyed"]

RCommit(r, e) ==
    /\ rn' = r.rn
    /\ rcalls' = r.calls
    /\ rhist' = Append(rhist, e)
    /\ UNCHANGED <<gv, env, calls, last, fault, sd>>

RFresh == R(rn, <<>>)

Serving == rn.object = "alive" /\ rn.process = "running"

\* createPlugin: create() returns true, so the new object is what it returns.
CreatePlugin ==
    /\ rn.object = "none"
    /\ \E platform \in BOOLEAN :
         RCommit(RendererCtor(RFresh, platform), Entry("createPlugin", -1, ""))

\* The engine deletes the plugin object.
DestroyPlugin ==
    /\ Serving
    /\ RCommit(RendererDtor(RFresh), Entry("destroyPlugin", -1, ""))

FrameBody_NoReset(r) == BgfxFrame(r)

FrameBody(r) == [BgfxFrame(r) EXCEPT !.rn.m_view_counter = 0]

Frame ==
    /\ Serving
    /\ Len(rhist) < MaxOps
    /\ RCommit(FrameBody(RFresh), Entry("frame", -1, ""))

ViewCounterAddBody(r) == [r EXCEPT !.rn.m_view_counter = @ + 1]

ViewCounterAdd ==
    /\ Serving
    /\ Len(rhist) < MaxOps
    /\ RCommit(ViewCounterAddBody(RFresh), Entry("viewCounterAdd", -1, ""))

GetViewCounter ==
    /\ Serving
    /\ Len(rhist) < MaxOps
    /\ RCommit(RFresh, Entry("getViewCounter", rn.m_view_counter, ""))

\* CallbackStub::fatal.  Debug::debugBreak either returns or stops the process.
FatalBody_AbortOnDebugCheck(r, code, break_returns) ==
    LET r1 == [r EXCEPT !.calls = Append(@, RCall("g_log_error.log", code))]
    IN  IF code # "DebugCheck"
        THEN [r1 EXCEPT !.calls = Append(@, RCall("Debug::debugBreak", "")),
                        !.rn.process = IF break_returns THEN @ ELSE "stopped"]
        ELSE [r1 EXCEPT !.calls = Append(@, RCall("abort", "")),
                        !.rn.process = "aborted"]

FatalBody(r, code, break_returns) ==
    LET r1 == [r EXCEPT !.calls = Append(@, RCall("g_log_error.log", code))]
    IN  IF code = "DebugCheck"
        THEN [r1 EXCEPT !.calls = Append(@, RCall("Debug::debugBreak", "")),
                        !.rn.process = IF break_returns THEN @ ELSE "stopped"]
        ELSE [r1 EXCEPT !.calls = Append(@, RCall("abort", "")),
                        !.rn.process = "aborted"]

\* bgfx reports a fault through the callback the constructor handed to bgfx::init.
Fatal ==
    /\ rn.bgfx = "on"
    /\ rn.process = "running"
    /\ Len(rhist) < MaxOps
    /\ \E code \in FatalCodes :
         \E break_returns \in (IF code = "DebugCheck" THEN BOOLEAN ELSE {TRUE}) :
           RCommit(FatalBody(RFresh, code, break_returns), Entry("fatal", -1, code))

\* ------------------------------------------------------- m_shader_defines

\* sizeof(ShaderDefine).
ShaderDefineSize == 32

Str(c, n) == [i \in 1 .. n |-> c]

\* The define names callers pass: short ones, and ones as long as an entry.
DefineInputs ==
    { <<"a">>, <<"a", "b">>,
      Str("b", ShaderDefineSize - 1), Str("b", ShaderDefineSize),
      Str("b", ShaderDefineSize + 1) }

Min(a, b) == IF a < b THEN a ELSE b

\* copyString(char (&destination)[size], const char* source): at most size - 1
\* characters and the terminating zero fit.
CopyString(size, source) == SubSeq(source, 1, Min(Len(source), size - 1))

\* The linear search of getShaderDefineIdx: the first entry that strcmp finds equal.
FindDefine(table, define) ==
    LET hits == {i \in DOMAIN table : table[i] = define}
    IN  IF hits = {} THEN -1
        ELSE (CHOOSE i \in hits : \A j \in hits : i <= j) - 1

\* getShaderDefineIdx: <<the table afterwards, the index returned>>.
GetShaderDefineIdxBody(table, define) ==
    LET found == FindDefine(table, define)
    IN  IF found >= 0 THEN <<table, found>>
        ELSE LET grown == Append(table, CopyString(ShaderDefineSize, define))
             IN  <<grown, Len(grown) - 1>>

\* getShaderDefine.
GetShaderDefineBody(table, define_idx) == table[define_idx + 1]

SdInit ==
    [ m_shader_defines |-> <<>>,
      first_idx        |-> [d \in DefineInputs |-> -1],   \* the index each define got first
      op               |-> "RendererImpl",
      define           |-> <<>>,
      idx              |-> -1,
      ret              |-> <<>>,
      size_before      |-> 0 ]

GetShaderDefineIdx ==
    \E define \in DefineInputs :
      LET res == GetShaderDefineIdxBody(sd.m_shader_defines, define)
      IN  /\ Len(res[1]) <= MaxDefines
          /\ sd' = [ m_shader_defines |-> res[1],
                     first_idx |-> IF sd.first_idx[define] = -1
                                   THEN [sd.first_idx EXCEPT ![define] = res[2]]
                                   ELSE sd.first_idx,
                     op |-> "getShaderDefineIdx",
                     define |-> define,
                     idx |-> res[2],
                     ret |-> <<>>,
                     size_before |-> Len(sd.m_shader_defines) ]
          /\ UNCHANGED <<gv, env, calls, last, fault, rn, rcalls, rhist>>

GetShaderDefine ==
    \E define_idx \in 0 .. Len(sd.m_shader_defines) - 1 :
      /\ sd' = [sd EXCEPT !.op = "getShaderDefine",
                          !.define = <<>>,
                          !.idx = define_idx,
                          !.ret = GetShaderDefineBody(sd.m_shader_defines, define_idx),
                          !.size_before = Len(sd.m_shader_defines)]
      /\ UNCHANGED <<gv, env, calls, last, fault, rn, rcalls, rhist>>

\* ------------------------------------------------------------ specification

Init ==
    /\ gv = GameViewCtor
    /\ env = EnvInit
    /\ calls = <<>>
    /\ last = Op("GameView")
    /\ fault = FALSE
    /\ rn = RendererNone
    /\ rcalls = <<>>
    /\ rhist = <<>>
    /\ sd = SdInit

RendererNext ==
    \/ CreatePlugin
    \/ DestroyPlugin
    \/ Frame
    \/ ViewCounterAdd
    \/ GetViewCounter
    \/ Fatal

DefinesNext ==
    \/ GetShaderDefineIdx
    \/ GetShaderDefine

Next ==
    \/ GameViewInit
    \/ GameViewShutdown
    \/ GameViewSetScene
    \/ GameViewOnGui
    \/ EditorUniverseCreated
    \/ EditorUniverseDestroyed
    \/ EscapeKey
    \/ EditorToggleGameMode
    \/ WindowFocus

\* The panel.
Spec == Init /\ [][Next]_vars

\* The renderer plugin: its lifetime, the view counter, the fatal callback.
SpecRenderer == Init /\ [][RendererNext]_vars

\* The shader define table of a constructed renderer.
InitDefines ==
    /\ gv = GameViewCtor
    /\ env = EnvInit
    /\ calls = <<>>
    /\ last = Op("GameView")
    /\ fault = FALSE
    /\ rn = RendererCtor(R(RendererNone, <<>>), FALSE).rn
    /\ rcalls = <<>>
    /\ rhist = <<Entry("createPlugin", -1, "")>>
    /\ sd = SdInit

SpecDefines == InitDefines /\ [][DefinesNext]_vars

\* ---------------------------------------------------------------- claims

Calls(fn) == {i \in DOMAIN calls : calls[i].fn = fn}

OnGuiReady == last.op = "onGui" /\ last.ready

\* C1: when an onGui call that ran with the pipeline ready returns with the mouse
\* captured, the editor is in game mode, whatever the other inputs were.
C1_CapturedOnlyInGameMode ==
    (OnGuiReady /\ gv.m_is_mouse_captured) => last.game_mode

\* A ready frame that kept an already captured mouse captured.
C1_Witness ==
    OnGuiReady /\ last.was_captured /\ gv.m_is_mouse_captured /\ ~last.click_in_view

\* C2: when an onGui call that ran with the pipeline ready and without input focus
\* returns, the mouse is not captured.
C2_UnfocusedNeverCaptured ==
    (OnGuiReady /\ ~last.focus) => ~gv.m_is_mouse_captured

\* C3: m_is_mouse_captured goes from false to true only in an onGui call with the
\* pipeline ready, the dock visible, the mouse over the window and the content
\* rectangle, the left button clicked and the editor in game mode.
C3_CaptureOnlyByClick ==
    [][(~gv.m_is_mouse_captured /\ gv'.m_is_mouse_captured)
        => (last'.op = "onGui" /\ last'.ready /\ last'.click_in_view
            /\ last'.game_mode)]_vars

\* A frame that acquired the capture.
C3_Witness ==
    last.op = "onGui" /\ ~last.was_captured /\ gv.m_is_mouse_captured

\* C4: the engine's paused flag equals m_paused, and an onGui call that toggled
\* m_paused called Engine::pause with the new value.
C4_PauseMirrored ==
    /\ env.engine_paused = gv.m_paused
    /\ (last.op = "onGui" /\ gv.m_paused # last.was_paused)
         => \E i \in DOMAIN calls : calls[i] = Call("Engine::pause", B2I(gv.m_paused))
    /\ \A i \in Calls("Engine::pause") : last.op = "onGui" /\ gv.m_paused # last.was_paused

\* A frame in which the Pause checkbox was ticked.
C4_Witness ==
    last.op = "onGui" /\ gv.m_paused /\ ~last.was_paused

\* C8: init creates and loads one pipeline and binds both callbacks; a universe
\* event on a bound panel sets the pipeline's scene (the editor's renderer scene,
\* or null); shutdown unbinds both callbacks, then destroys the pipeline once and
\* nulls the handle; no universe callback dereferences a null or destroyed pipeline.
C8_PipelineOwnedBetweenInitAndShutdown ==
    /\ ~fault
    /\ env.n_created <= 1 /\ env.n_loaded <= 1 /\ env.n_destroyed <= 1
    /\ gv.m_pipeline => (env.pipeline = "alive" /\ env.cb_created /\ env.cb_destroyed)
    /\ ~gv.m_pipeline => (~env.cb_created /\ ~env.cb_destroyed)
    /\ last.op = "init"
         => /\ env.n_created = 1 /\ env.n_loaded = 1 /\ gv.m_pipeline
            /\ env.pipeline_scene = EditorScene(env)
    /\ (last.op = "universeCreated" /\ gv.m_pipeline)
         => (env.pipeline_scene = EditorScene(env) /\ env.universe = 1)
    /\ (last.op = "universeDestroyed" /\ gv.m_pipeline) => env.pipeline_scene = 0
    /\ (last.op \in {"universeCreated", "universeDestroyed"} /\ ~gv.m_pipeline)
         => calls = <<>>
    /\ last.op = "shutdown"
         => /\ calls = <<Call("universeCreated.unbind", 0),
                          Call("universeDestroyed.unbind", 0),
                          Call("Pipeline::destroy", 0)>>
            /\ env.pipeline = "destroyed" /\ env.n_destroyed = 1

\* A universe event that arrives after shutdown.
C8_Witness ==
    /\ last.op \in {"universeCreated", "universeDestroyed"}
    /\ gv.m_editor /\ ~gv.m_pipeline /\ env.pipeline = "destroyed"

\* C9: onGui calls Engine::nextFrame at most once, only with m_paused true, after
\* any Engine::pause of the same call, and never on an unpaused engine.
C9_NextFrameOnlyWhilePaused ==
    /\ Cardinality(Calls("Engine::nextFrame")) <= 1
    /\ \A i \in Calls("Engine::nextFrame") :
         /\ last.op = "onGui"
         /\ gv.m_paused
         /\ calls[i].arg = 1
         /\ \A j \in Calls("Engine::pause") : j < i

\* A frame that ticked Pause and pressed "Next frame".
C9_Witness ==
    /\ Calls("Engine::nextFrame") # {}
    /\ Calls("Engine::pause") # {}

\* C11: an onGui call that finds the pipeline not ready changes no field of the
\* panel, makes no call (engine, input system, SDL, dock, pipeline) and leaves the
\* engine, cursor and input state as they were; a captured mouse stays captured
\* whatever the Escape key, the focus and the game mode are.
C11_UnreadyFrameIsNoOp ==
    [][(last'.op = "onGui" /\ ~last'.ready)
        => (gv' = gv /\ env' = env /\ fault' = fault /\ calls' = <<>>)]_vars

\* An unready frame with the mouse captured and every release condition present:
\* Escape down, no focus, not in game mode; the panel had drawn, paused and
\* changed the time multiplier before.
C11_Witness ==
    /\ last.op = "onGui" /\ ~last.ready
    /\ gv.m_is_mouse_captured /\ env.input_enabled
    /\ last.escape /\ ~last.focus /\ ~last.game_mode
    /\ gv.m_paused /\ gv.m_time_multiplier # 1 /\ gv.m_texture_handle # 0

\* C12: when an onGui call that ran with the pipeline ready and the Escape key
\* down returns, the mouse is not captured, the input system is disabled, the
\* cursor is shown and relative mouse mode is off.
C12_EscapeReleases ==
    (OnGuiReady /\ last.escape)
      => /\ ~gv.m_is_mouse_captured
         /\ ~env.input_enabled
         /\ env.cursor_shown
         /\ ~env.relative_mouse

\* ------------------------------------------------------- renderer claims

RLast == IF rhist = <<>> THEN Entry("", -1, "") ELSE rhist[Len(rhist)]

RCalls(fn, arg) == {i \in DOMAIN rcalls : rcalls[i] = RCall(fn, arg)}

\* The viewCounterAdd() calls of a history since its most recent frame(), or since
\* construction.
RECURSIVE AddsSinceFrame(_)
AddsSinceFrame(h) ==
    IF h = <<>> THEN 0
    ELSE LET e == h[Len(h)]
             rest == SubSeq(h, 1, Len(h) - 1)
         IN  IF e.op \in {"frame", "createPlugin"} THEN 0
             ELSE IF e.op = "viewCounterAdd" THEN 1 + AddsSinceFrame(rest)
             ELSE AddsSinceFrame(rest)

\* C5: the view counter is the number of viewCounterAdd() calls since the most
\* recent frame() (or since construction); getViewCounter() returns it and
\* leaves it as it is; it is 0 after construction and after frame().
C5_ViewCounterPerFrame ==
    /\ rn.object = "alive" => rn.m_view_counter = AddsSinceFrame(rhist)
    /\ \A i \in DOMAIN rhist :
         rhist[i].op = "getViewCounter"
           => rhist[i].ret = AddsSinceFrame(SubSeq(rhist, 1, i - 1))
    /\ (rn.object = "alive" /\ RLast.op \in {"createPlugin", "frame"})
         => rn.m_view_counter = 0

\* add, frame, add, get: the count restarts at the frame.
C5_Witness ==
    /\ Len(rhist) = 5
    /\ rhist[2].op = "viewCounterAdd" /\ rhist[3].op = "frame"
    /\ rhist[4].op = "viewCounterAdd" /\ rhist[5].op = "getViewCounter"
    /\ rhist[5].ret = 1

\* C6, as claimed: every fatal callback logs the message and then aborts the
\* process.
C6_FatalAlwaysAborts ==
    RLast.op = "fatal"
      => (rcalls = <<RCall("g_log_error.log", RLast.code), RCall("abort", "")>>
          /\ rn.process = "aborted")

\* C6, amended: every fatal callback logs the message first; with a code other
\* than DebugCheck it then aborts the process and nothing runs after it; with
\* DebugCheck it calls Debug::debugBreak() and does not itself call abort().
C6_FatalAbortsUnlessDebugCheck ==
    /\ RLast.op = "fatal"
         => /\ Len(rcalls) = 2
            /\ rcalls[1] = RCall("g_log_error.log", RLast.code)
            /\ RLast.code # "DebugCheck"
                 => (rcalls[2] = RCall("abort", "") /\ rn.process = "aborted")
            /\ RLast.code = "DebugCheck"
                 => (rcalls[2] = RCall("Debug::debugBreak", "")
                     /\ RCalls("abort", "") = {})
    /\ rn.process = "aborted" => RLast.op = "fatal"

\* A fault other than a debug check, after which the process is gone.
C6_Witness ==
    RLast.op = "fatal" /\ RLast.code = "DeviceLost" /\ rn.process = "aborted"

\* C7: construction initialises bgfx before it registers one manager per resource
\* type; a live renderer has all six; destruction destroys each once, then submits
\* two frames, then shuts bgfx down.
C7_ManagersWithinBackendLifetime ==
    /\ rn.object = "none"
         => (rn.bgfx = "off" /\ \A t \in ManagerSet : rn.managers[t] = "none")
    /\ rn.object = "alive"
         => (rn.bgfx = "on" /\ \A t \in ManagerSet : rn.managers[t] = "created")
    /\ rn.object = "destroyed"
         => (rn.bgfx = "shut" /\ \A t \in ManagerSet : rn.managers[t] = "destroyed")
    /\ RLast.op = "createPlugin"
         => /\ Cardinality(RCalls("bgfx::init", "")) = 1
            /\ \A t \in ManagerSet :
                 /\ Cardinality(RCalls("create", t)) = 1
                 /\ \A i \in RCalls("create", t) :
                      \A j \in RCalls("bgfx::init", "") : j < i
    /\ RLast.op = "destroyPlugin"
         => /\ Cardinality(RCalls("bgfx::frame", "")) = 2
            /\ RCalls("bgfx::shutdown", "") = {Len(rcalls)}
            /\ \A t \in ManagerSet :
                 /\ Cardinality(RCalls("destroy", t)) = 1
                 /\ \A i \in RCalls("destroy", t) :
                      \A j \in RCalls("bgfx::frame", "") : i < j
            /\ \A j \in RCalls("bgfx::frame", "") : j < Len(rcalls)

\* A renderer that served some operations and was destroyed.
C7_Witness ==
    rn.object = "destroyed" /\ Len(rhist) > 2 /\ RLast.op = "destroyPlugin"

\* ------------------------------------------------- shader define claims

DefinesSeen == {d \in DefineInputs : sd.first_idx[d] # -1}

\* C10, as claimed: getShaderDefineIdx gives a define the index it gave it first,
\* grows the table only for a define not seen before, gives different defines
\* different indices, and getShaderDefine of the index is the define.
C10_DefinesInterned ==
    sd.op = "getShaderDefineIdx"
      => /\ sd.idx = sd.first_idx[sd.define]
         /\ Len(sd.m_shader_defines) = Cardinality(DefinesSeen)
         /\ \A d1, d2 \in DefinesSeen :
              d1 # d2 => sd.first_idx[d1] # sd.first_idx[d2]
         /\ GetShaderDefineBody(sd.m_shader_defines, sd.idx) = sd.define
====
